---- MODULE Spec2Model ----
(***************************************************************************)
(* The connector of src/database_connect.py as a state machine.            *)
(*                                                                         *)
(* The store holds one production table (TargetTable) and the staging      *)
(* relations update_from_dataframe creates.  Every connector owns one      *)
(* connection (self.connection) whose open transaction is tx[p]; loads     *)
(* made with DataFrame.to_sql(..., self.engine) travel on a connection of  *)
(* their own, taken from the engine, and commit on their own.  Every      *)
(* statement sent to the store may fail.                                   *)
(***************************************************************************)
EXTENDS Integers, Sequences, FiniteSets, TLC

VARIABLES
    target,       \* committed rows of the production table
    staging,      \* committed staging relations: name -> [cols, rows, owner]
    snapshotSeq,  \* last identifier handed out by ods.snapshot
    tx,           \* per connector: the open transaction of self.connection
    pc,           \* per connector: position inside the running operation
    op,           \* per connector: the operation called last
    args,         \* per connector: the arguments of that call
    loc,          \* per connector: the local variables of that call
    outcome,      \* per connector: how the call came back to its caller
    hist,         \* per connector: what the call saw and did (observation only)
    calls         \* operations called so far

vars == <<target, staging, snapshotSeq, tx, pc, op, args, loc, outcome, hist, calls>>

(***************************************************************************)
(* Bounds of the model.                                                    *)
(***************************************************************************)
MaxBatchRows == 2      \* rows of a batch
MaxSnapshot == 3       \* identifiers the sequencer hands out
MaxTargetRows == 4     \* rows the production table may grow to
MaxCalls == 2          \* operations called in one run
MaxWriteRows == 3      \* rows of a batch handed to insert_dataframe
Procs == {1, 2}        \* connectors

(***************************************************************************)
(* Data: column names, values, rows, batches.                              *)
(***************************************************************************)
TargetTable == "positions"
TableCols == <<"symbol", "shares", "updated_at">>
NULL == "NULL"

Range(s) == {s[i] : i \in DOMAIN s}

SeqsUpTo(S, n) == UNION {[1..k -> S] : k \in 0..n}

Project(row, colset) == [c \in colset |-> row[c]]

RECURSIVE SelectIdx(_, _, _)
SelectIdx(s, I, i) ==
    IF i > Len(s) THEN <<>>
    ELSE (IF i \in I THEN <<s[i]>> ELSE <<>>) \o SelectIdx(s, I, i + 1)

Row(sym, sh, ts) == [symbol |-> sym, shares |-> sh, updated_at |-> ts]

InitialTargets ==
    { <<Row("AAPL", "10", "t0")>>,
      <<Row("AAPL", "10", "t0"), Row("MSFT", "10", "t0")>> }

BaseRows ==
    { [symbol |-> "AAPL", shares |-> "25",  updated_at |-> "t1", extra |-> "x"],
      [symbol |-> "AAPL", shares |-> "999", updated_at |-> "t2", extra |-> "x"],
      [symbol |-> "MSFT", shares |-> "25",  updated_at |-> "t1", extra |-> "x"] }

BatchColumns ==
    { <<"symbol", "shares", "updated_at">>,
      <<"shares", "extra", "symbol">>,
      <<"shares", "updated_at">> }

MakeDf(cs, rs) ==
    [cols |-> cs, rows |-> [i \in 1..Len(rs) |-> Project(rs[i], Range(cs))]]

Batches == {MakeDf(cs, rs) : cs \in BatchColumns, rs \in SeqsUpTo(BaseRows, MaxBatchRows)}

NoDf == [cols |-> <<>>, rows |-> <<>>]

NotGiven == [given |-> FALSE, cols |-> <<>>]

Given(cs) == [given |-> TRUE, cols |-> cs]

UpdateArgs ==
    [ df : Batches,
      table_name : {TargetTable, "nosuch"},
      key_columns : {<<"symbol">>, <<"symbol", "shares">>, <<"extra">>},
      update_columns : {NotGiven, Given(<<"symbol">>), Given(<<"shares", "updated_at">>)},
      if_exists : {"append"},
      chunksize : {0} ]

WriteRows ==
    { [symbol |-> "AAPL", shares |-> "25", updated_at |-> "t1", extra |-> "x"],
      [symbol |-> "MSFT", shares |-> "30", updated_at |-> "t2", extra |-> "x"] }

\* chunksize 0 stands for chunksize=None
WriteArgs ==
    [ df : {MakeDf(cs, rs) : cs \in {<<"shares", "extra", "symbol">>,
                                     <<"symbol", "shares", "updated_at">>},
                             rs \in SeqsUpTo(WriteRows, MaxWriteRows)},
      table_name : {TargetTable},
      key_columns : {<<>>},
      update_columns : {NotGiven},
      if_exists : {"append", "fail"},
      chunksize : {0, 1, 2} ]

\* a record handed to insert_record becomes a batch of one row
RecordArgs ==
    [ df : {MakeDf(<<"symbol", "shares", "extra">>, <<r>>) : r \in BaseRows},
      table_name : {TargetTable},
      key_columns : {<<>>},
      update_columns : {NotGiven},
      if_exists : {"append"},
      chunksize : {0} ]

\* two callers that update the same table
ConcArgs ==
    [ df : {MakeDf(<<"symbol", "shares", "updated_at">>, <<r>>) : r \in BaseRows},
      table_name : {TargetTable},
      key_columns : {<<"symbol">>},
      update_columns : {NotGiven, Given(<<"shares">>)},
      if_exists : {"append"},
      chunksize : {0} ]

NoArgs ==
    [df |-> NoDf, table_name |-> TargetTable, key_columns |-> <<>>,
     update_columns |-> NotGiven, if_exists |-> "append", chunksize |-> 0]

(***************************************************************************)
(* The store as seen by one connection.                                    *)
(***************************************************************************)
NoTx == [active |-> FALSE, hasTarget |-> FALSE, target |-> <<>>, dropped |-> {}]

\* the catalog: the columns of a table, in ordinal order
columns_of(table_name) == IF table_name = TargetTable THEN TableCols ELSE <<>>

\* query_columns: the catalog's answer, or [] when the query fails
query_columns(table_name) == {columns_of(table_name), <<>>}

\* a relation is there for connection p unless p itself has dropped it
Visible(p, name) == name \in DOMAIN staging /\ name \notin tx[p].dropped

\* a DROP TABLE not yet committed holds the relation's exclusive lock
LockedByOther(p, name) == \E q \in Procs \ {p} : name \in tx[q].dropped

LockedByAny(name) == \E q \in Procs : name \in tx[q].dropped

\* an UPDATE not yet committed holds the locks of the rows it wrote; the
\* model takes them for the whole table, so a second UPDATE waits for the
\* first transaction to end
TargetLockedByOther(p) == \E q \in Procs \ {p} : tx[q].hasTarget

Without(f, names) == [n \in (DOMAIN f) \ names |-> f[n]]

With(f, name, rel) == [n \in (DOMAIN f) \cup {name} |-> IF n = name THEN rel ELSE f[n]]

(***************************************************************************)
(* update_from_dataframe: the computations before the transaction.         *)
(***************************************************************************)
KeyColumnsValid_NoCheck(key_columns, table_cols) == TRUE

\* set(key_columns).issubset(table_cols)
KeyColumnsValid(key_columns, table_cols) == Range(key_columns) \subseteq table_cols

ResolveUpdateColumns_KeepKeys(df_cols, key_columns, update_columns, table_cols) ==
    LET requested ==
            IF update_columns.given THEN update_columns.cols
            ELSE SelectSeq(df_cols, LAMBDA c : c \notin Range(key_columns))
    IN  SelectSeq(requested, LAMBDA c : c \in table_cols)

\* update_columns defaults to the batch's columns minus the keys; it is always
\* filtered to the table's columns with the keys removed
ResolveUpdateColumns(df_cols, key_columns, update_columns, table_cols) ==
    LET requested ==
            IF update_columns.given THEN update_columns.cols
            ELSE SelectSeq(df_cols, LAMBDA c : c \notin Range(key_columns))
    IN  SelectSeq(requested, LAMBDA c : c \in table_cols /\ c \notin Range(key_columns))

\* cols_needed = [c for c in (key_columns + update_columns) if c in df.columns]
ColsNeeded(df_cols, key_columns, update_columns) ==
    SelectSeq(key_columns \o update_columns, LAMBDA c : c \in Range(df_cols))

SameKey(r1, r2, keyset) == \A k \in keyset : r1[k] = r2[k]

DropDuplicates_KeepLast(rows, keyset) ==
    SelectIdx(rows,
              {i \in 1..Len(rows) :
                  \A j \in (i + 1)..Len(rows) : ~SameKey(rows[j], rows[i], keyset)},
              1)

DropDuplicates_KeepAll(rows, keyset) == rows

\* DataFrame.drop_duplicates(subset=key_columns): the first row of every key
\* tuple is kept, in batch order
DropDuplicates(rows, keyset) ==
    SelectIdx(rows,
              {i \in 1..Len(rows) :
                  \A j \in 1..(i - 1) : ~SameKey(rows[j], rows[i], keyset)},
              1)

\* work = df.loc[:, cols_needed].drop_duplicates(subset=key_columns)
Work(df, cols_needed, key_columns) ==
    LET projected == [i \in 1..Len(df.rows) |-> Project(df.rows[i], Range(cols_needed))]
    IN  [cols |-> cols_needed, rows |-> DropDuplicates(projected, Range(key_columns))]

\* f"tmp_update_{table_name}"
StagingName(table_name) == "tmp_update_" \o table_name

TempName_PerCall(p) == StagingName(args[p].table_name) \o "_" \o ToString(p)

\* temp_name of the call connector p is running
TempName(p) == StagingName(args[p].table_name)

(***************************************************************************)
(* The UPDATE ... FROM statement.                                          *)
(***************************************************************************)
\* the rows of s that the join predicate pairs with target row t
Matches(t, s, key_columns) ==
    {i \in 1..Len(s.rows) :
        \A k \in Range(key_columns) : t[k] # NULL /\ s.rows[i][k] = t[k]}

\* what the statement may leave in place of target row t: the row itself when
\* no staged row joins it, otherwise the row with every update column taken
\* from one joined staged row (the store picks one when several join)
RowChoices(t, s, key_columns, update_columns) ==
    LET M == Matches(t, s, key_columns)
    IN  IF M = {} THEN {t}
        ELSE {[c \in DOMAIN t |->
                  IF c \in Range(update_columns) THEN s.rows[i][c] ELSE t[c]] : i \in M}

RECURSIVE UpdateFrom(_, _, _, _)
UpdateFrom(rows, s, key_columns, update_columns) ==
    IF rows = <<>> THEN {<<>>}
    ELSE {<<h>> \o r : h \in RowChoices(Head(rows), s, key_columns, update_columns),
                       r \in UpdateFrom(Tail(rows), s, key_columns, update_columns)}

\* the statement names t.<k>, s.<k>, t.<c>, s.<c>: it fails when the staging
\* relation is not there or does not carry one of these columns
UpdateStatementValid(p) ==
    /\ Visible(p, loc[p].temp_name)
    /\ Range(args[p].key_columns) \cup Range(loc[p].update_columns)
           \subseteq Range(staging[loc[p].temp_name].cols)

(***************************************************************************)
(* Initial state.                                                          *)
(***************************************************************************)
NoLoc ==
    [table_cols |-> {}, update_columns |-> <<>>, work |-> NoDf, temp_name |-> "",
     filtered |-> <<>>, chunk |-> 0, nchunks |-> 0, loaded |-> <<>>, ret |-> 0]

NoHist ==
    [start_target |-> <<>>, start_names |-> {}, txOpened |-> FALSE, repeat |-> FALSE,
     readFrom |-> 0, readMissing |-> FALSE, failedChunk |-> 0, sent |-> {},
     kept |-> FALSE]

Init ==
    /\ target \in InitialTargets
    /\ staging = <<>>
    /\ snapshotSeq = 0
    /\ tx = [p \in Procs |-> NoTx]
    /\ pc = [p \in Procs |-> "idle"]
    /\ op = [p \in Procs |-> "none"]
    /\ args = [p \in Procs |-> NoArgs]
    /\ loc = [p \in Procs |-> NoLoc]
    /\ outcome = [p \in Procs |-> "none"]
    /\ hist = [p \in Procs |-> NoHist]
    /\ calls = 0

\* the caller is free to call an operation of connector p
Idle(p) == pc[p] = "idle" /\ calls < MaxCalls

\* the call returns: position, result, and the locals it leaves behind
Finish(p, how) ==
    /\ pc' = [pc EXCEPT ![p] = "done"]
    /\ outcome' = [outcome EXCEPT ![p] = how]

\* an exception inside `with self.connection.begin()`: the scope rolls the
\* connection's transaction back, the handler of line 162 logs and returns
Abort(p) ==
    /\ tx' = [tx EXCEPT ![p] = NoTx]
    /\ Finish(p, "error")

(***************************************************************************)
(* update_from_dataframe, lines 118-139: validation, resolution of the     *)
(* update columns, projection and de-duplication.                          *)
(***************************************************************************)
UpdateEnter(p, a, cols, again) ==
    LET table_cols == Range(cols)
        upd == ResolveUpdateColumns(a.df.cols, a.key_columns, a.update_columns, table_cols)
        needed == ColsNeeded(a.df.cols, a.key_columns, upd)
        work == Work(a.df, needed, a.key_columns)
        how == IF table_cols = {} THEN "error"
               ELSE IF ~KeyColumnsValid(a.key_columns, table_cols) THEN "error"
               ELSE IF upd = <<>> THEN "noop"
               ELSE IF ~(Range(a.key_columns) \subseteq Range(a.df.cols)) THEN "error"
               ELSE IF work.rows = <<>> THEN "noop"
               ELSE "go"
    IN  /\ calls' = calls + 1
        /\ op' = [op EXCEPT ![p] = "update_from_dataframe"]
        /\ args' = [args EXCEPT ![p] = a]
        /\ hist' = [hist EXCEPT ![p] =
               [NoHist EXCEPT !.start_target = target,
                              !.start_names = DOMAIN staging,
                              !.repeat = again]]
        /\ loc' = [loc EXCEPT ![p] =
               [NoLoc EXCEPT !.table_cols = table_cols,
                             !.update_columns =
                                 IF table_cols = {}
                                    \/ ~KeyColumnsValid(a.key_columns, table_cols)
                                 THEN <<>> ELSE upd,
                             !.work = IF how = "go" THEN work ELSE NoDf]]
        /\ pc' = [pc EXCEPT ![p] = IF how = "go" THEN "begin" ELSE "done"]
        /\ outcome' = [outcome EXCEPT ![p] = IF how = "go" THEN "none" ELSE how]
        /\ UNCHANGED <<target, staging, snapshotSeq, tx>>

UpdateCall(p) ==
    /\ Idle(p)
    /\ \E a \in UpdateArgs : \E cols \in query_columns(a.table_name) :
          UpdateEnter(p, a, cols, FALSE)

\* the caller calls update_from_dataframe a second time with the arguments of
\* the call that has just completed
UpdateCallAgain(p) ==
    /\ pc[p] = "done"
    /\ calls < MaxCalls
    /\ op[p] = "update_from_dataframe"
    /\ outcome[p] = "ok"
    /\ \E cols \in query_columns(args[p].table_name) : UpdateEnter(p, args[p], cols, TRUE)

\* the caller takes the result; the call's locals are gone
ReturnToCaller(p) ==
    /\ pc[p] = "done"
    /\ pc' = [pc EXCEPT ![p] = "idle"]
    /\ op' = [op EXCEPT ![p] = "none"]
    /\ args' = [args EXCEPT ![p] = NoArgs]
    /\ loc' = [loc EXCEPT ![p] = NoLoc]
    /\ outcome' = [outcome EXCEPT ![p] = "none"]
    /\ hist' = [hist EXCEPT ![p] = NoHist]
    /\ UNCHANGED <<target, staging, snapshotSeq, tx, calls>>

(***************************************************************************)
(* Lines 142-143: temp_name, and the transaction scope is opened on        *)
(* self.connection.  begin() raises when the connection cannot start one.  *)
(***************************************************************************)
Begin(p) ==
    /\ pc[p] = "begin"
    /\ \/ /\ tx' = [tx EXCEPT ![p] = [NoTx EXCEPT !.active = TRUE]]
          /\ loc' = [loc EXCEPT ![p].temp_name = TempName(p)]
          /\ hist' = [hist EXCEPT ![p].txOpened = TRUE]
          /\ pc' = [pc EXCEPT ![p] = "drop_old"]
          /\ UNCHANGED outcome
       \/ /\ loc' = [loc EXCEPT ![p].temp_name = TempName(p)]
          /\ Finish(p, "error")
          /\ UNCHANGED <<tx, hist>>
    /\ UNCHANGED <<target, staging, snapshotSeq, op, args, calls>>

(***************************************************************************)
(* Lines 145 and 159: DROP TABLE IF EXISTS temp_name, on self.connection,  *)
(* inside the transaction.  The drop takes effect at commit; until then    *)
(* the connection holds the relation's lock.  A relation locked by another *)
(* transaction makes the statement wait.                                   *)
(***************************************************************************)
DropIfExists(p, here, next) ==
    /\ pc[p] = here
    /\ \/ /\ ~LockedByOther(p, loc[p].temp_name)
          /\ tx' = [tx EXCEPT ![p].dropped =
                       IF loc[p].temp_name \in DOMAIN staging
                       THEN @ \cup {loc[p].temp_name} ELSE @]
          /\ pc' = [pc EXCEPT ![p] = next]
          /\ UNCHANGED outcome
       \/ Abort(p)
    /\ UNCHANGED <<target, staging, snapshotSeq, op, args, loc, hist, calls>>

DropOld(p) == DropIfExists(p, "drop_old", "to_sql")

DropStaging(p) == DropIfExists(p, "drop_staging", "commit")

(***************************************************************************)
(* Line 146: work.to_sql(temp_name, self.engine, if_exists="replace").     *)
(* The load runs on a connection of the engine, in a transaction of its    *)
(* own that commits when to_sql returns: the relation is replaced for      *)
(* every connection at once, whatever becomes of tx[p].  Replacing a       *)
(* relation whose drop is pending waits for that lock, also when the       *)
(* pending drop is the one this call issued at line 145 on self.connection *)
(* because an earlier call left the relation behind: the load then cannot  *)
(* succeed, it waits until the store gives up on it.                       *)
(***************************************************************************)
ToSql(p) ==
    /\ pc[p] = "to_sql"
    /\ \/ /\ ~LockedByAny(loc[p].temp_name)
          /\ staging' = With(staging, loc[p].temp_name,
                             [cols |-> loc[p].work.cols, rows |-> loc[p].work.rows,
                              owner |-> p])
          /\ pc' = [pc EXCEPT ![p] = "update"]
          /\ UNCHANGED <<tx, outcome>>
       \/ \* the load fails after the relation was created
          /\ ~LockedByAny(loc[p].temp_name)
          /\ staging' = With(staging, loc[p].temp_name,
                             [cols |-> loc[p].work.cols, rows |-> <<>>, owner |-> p])
          /\ Abort(p)
       \/ \* the load fails before anything was written
          /\ UNCHANGED staging
          /\ Abort(p)
    /\ UNCHANGED <<target, snapshotSeq, op, args, loc, hist, calls>>

(***************************************************************************)
(* Lines 149-157: the set-based UPDATE, on self.connection.                *)
(***************************************************************************)
Update(p) ==
    /\ pc[p] = "update"
    /\ \/ /\ UpdateStatementValid(p)
          /\ ~LockedByOther(p, loc[p].temp_name)
          /\ ~TargetLockedByOther(p)
          /\ \E res \in UpdateFrom(target, staging[loc[p].temp_name],
                                   args[p].key_columns, loc[p].update_columns) :
                tx' = [tx EXCEPT ![p].hasTarget = TRUE, ![p].target = res]
          /\ hist' = [hist EXCEPT ![p].readFrom = staging[loc[p].temp_name].owner]
          /\ pc' = [pc EXCEPT ![p] = "drop_staging"]
          /\ UNCHANGED outcome
       \/ /\ ~UpdateStatementValid(p)
          /\ hist' = [hist EXCEPT ![p].readMissing = ~Visible(p, loc[p].temp_name)]
          /\ Abort(p)
       \/ /\ UNCHANGED hist
          /\ Abort(p)
    /\ UNCHANGED <<target, staging, snapshotSeq, op, args, loc, calls>>

(***************************************************************************)
(* The end of the `with` block: commit, then line 161.                     *)
(***************************************************************************)
Commit(p) ==
    /\ pc[p] = "commit"
    /\ \/ /\ target' = IF tx[p].hasTarget THEN tx[p].target ELSE target
          /\ staging' = Without(staging, tx[p].dropped)
          /\ tx' = [tx EXCEPT ![p] = NoTx]
          /\ Finish(p, "ok")
       \/ /\ UNCHANGED <<target, staging>>
          /\ Abort(p)
    /\ UNCHANGED <<snapshotSeq, op, args, loc, hist, calls>>

(***************************************************************************)
(* The other operations of the connector that touch self.connection.       *)
(***************************************************************************)
\* lines 75-81: no handler around the statement
GetSnapshotId(p) ==
    /\ Idle(p)
    /\ calls' = calls + 1
    /\ op' = [op EXCEPT ![p] = "get_snapshot_id"]
    /\ args' = [args EXCEPT ![p] = NoArgs]
    /\ hist' = [hist EXCEPT ![p] = [NoHist EXCEPT !.start_target = target,
                                                  !.start_names = DOMAIN staging]]
    /\ \/ /\ snapshotSeq < MaxSnapshot
          /\ snapshotSeq' = snapshotSeq + 1
          /\ loc' = [loc EXCEPT ![p] = [NoLoc EXCEPT !.ret = snapshotSeq + 1]]
          /\ Finish(p, "ok")
       \/ \* fetchone() gives no row: logged, -1 returned
          /\ UNCHANGED snapshotSeq
          /\ loc' = [loc EXCEPT ![p] = [NoLoc EXCEPT !.ret = -1]]
          /\ Finish(p, "error")
       \/ \* execute() raises: nothing catches it
          /\ UNCHANGED snapshotSeq
          /\ loc' = [loc EXCEPT ![p] = NoLoc]
          /\ Finish(p, "raised")
    /\ UNCHANGED <<target, staging, tx>>

\* lines 92-104: update_values.pop(conditions.keys(), None) raises TypeError
\* (a keys view is not hashable) before any statement is built; the handler
\* logs it
UpdateRecord(p) ==
    /\ Idle(p)
    /\ calls' = calls + 1
    /\ op' = [op EXCEPT ![p] = "update_record"]
    /\ args' = [args EXCEPT ![p] = NoArgs]
    /\ hist' = [hist EXCEPT ![p] = [NoHist EXCEPT !.start_target = target,
                                                  !.start_names = DOMAIN staging]]
    /\ loc' = [loc EXCEPT ![p] = NoLoc]
    /\ Finish(p, "error")
    /\ UNCHANGED <<target, staging, snapshotSeq, tx>>

\* lines 39-47, called on its own
QueryColumns(p) ==
    /\ Idle(p)
    /\ \E t \in {TargetTable, "nosuch"} : \E cols \in query_columns(t) :
          /\ args' = [args EXCEPT ![p] = [NoArgs EXCEPT !.table_name = t]]
          /\ loc' = [loc EXCEPT ![p] = [NoLoc EXCEPT !.filtered = cols]]
    /\ calls' = calls + 1
    /\ op' = [op EXCEPT ![p] = "query_columns"]
    /\ hist' = [hist EXCEPT ![p] = [NoHist EXCEPT !.start_target = target,
                                                  !.start_names = DOMAIN staging]]
    /\ Finish(p, "ok")
    /\ UNCHANGED <<target, staging, snapshotSeq, tx>>

(***************************************************************************)
(* One connector, its operations called one after the other.               *)
(***************************************************************************)
Next ==
    \/ UpdateCall(1)
    \/ UpdateCallAgain(1)
    \/ ReturnToCaller(1)
    \/ Begin(1)
    \/ DropOld(1)
    \/ ToSql(1)
    \/ Update(1)
    \/ DropStaging(1)
    \/ Commit(1)
    \/ GetSnapshotId(1)
    \/ UpdateRecord(1)
    \/ QueryColumns(1)

Spec == Init /\ [][Next]_vars

(***************************************************************************)
(* insert_dataframe, lines 54-62.                                          *)
(***************************************************************************)
FilterColumns_TableOrder(df_cols, answers) ==
    IF answers = <<>> THEN <<>>
    ELSE SelectSeq(answers[1], LAMBDA c : c \in Range(df_cols))

\* [col for col in df.columns if col in self.query_columns(table_name)]: the
\* catalog is asked once per column of the batch, answers[i] is what it said
\* for column i
FilterColumns(df_cols, answers) ==
    SelectIdx(df_cols, {i \in 1..Len(df_cols) : df_cols[i] \in Range(answers[i])}, 1)

\* a row as the table stores it: the columns the load does not carry are NULL
Stored(row, cols) ==
    [c \in Range(TableCols) |-> IF c \in Range(cols) THEN row[c] ELSE NULL]

\* the rows to_sql sends; a frame without columns carries no row
RowsToLoad(df, cols) ==
    IF cols = <<>> THEN <<>> ELSE [i \in 1..Len(df.rows) |-> Stored(df.rows[i], cols)]

\* to_sql cuts the rows into consecutive groups of at most chunksize
NumChunks(nrows, chunksize) ==
    IF nrows = 0 THEN 0
    ELSE IF chunksize = 0 THEN 1
    ELSE (nrows + chunksize - 1) \div chunksize

ChunkRows(rows, chunksize, k) ==
    IF chunksize = 0 THEN rows
    ELSE SubSeq(rows, (k - 1) * chunksize + 1,
                IF k * chunksize < Len(rows) THEN k * chunksize ELSE Len(rows))

InsertEnter(p, a, answers, name) ==
    LET filtered == FilterColumns(a.df.cols, answers)
        n == NumChunks(Len(RowsToLoad(a.df, filtered)), a.chunksize)
    IN  /\ Len(target) + Len(a.df.rows) <= MaxTargetRows
        /\ calls' = calls + 1
        /\ op' = [op EXCEPT ![p] = name]
        /\ args' = [args EXCEPT ![p] = a]
        /\ hist' = [hist EXCEPT ![p] = [NoHist EXCEPT !.start_target = target,
                                                      !.start_names = DOMAIN staging]]
        /\ loc' = [loc EXCEPT ![p] =
               [NoLoc EXCEPT !.table_cols = UNION {Range(answers[i]) : i \in DOMAIN answers},
                             !.filtered = filtered,
                             !.chunk = 1,
                             !.nchunks = n]]
        \* if_exists="fail" and the table is there: to_sql raises ValueError
        /\ pc' = [pc EXCEPT ![p] =
               IF a.if_exists = "fail" THEN "done"
               ELSE IF n = 0 THEN "ins_commit" ELSE "load"]
        /\ outcome' = [outcome EXCEPT ![p] =
               IF a.if_exists = "fail" THEN "error" ELSE "none"]
        /\ UNCHANGED <<target, staging, snapshotSeq, tx>>

InsertCall(p) ==
    /\ Idle(p)
    /\ \E a \in WriteArgs :
          \E answers \in [1..Len(a.df.cols) -> query_columns(a.table_name)] :
              InsertEnter(p, a, answers, "insert_dataframe")

\* lines 68-73: insert_record wraps the record and calls insert_dataframe
InsertRecordCall(p) ==
    /\ Idle(p)
    /\ \E a \in RecordArgs :
          \E answers \in [1..Len(a.df.cols) -> query_columns(a.table_name)] :
              InsertEnter(p, a, answers, "insert_record")

LoadChunkFails_Continue(p) ==
    /\ hist' = [hist EXCEPT ![p].failedChunk = loc[p].chunk,
                            ![p].sent = @ \cup {loc[p].chunk}]
    /\ loc[p].chunk < loc[p].nchunks
    /\ loc' = [loc EXCEPT ![p].chunk = @ + 1]
    /\ UNCHANGED <<target, pc, outcome>>

\* a chunk fails: to_sql raises, the handler of line 61 logs and returns.
\* to_sql sends every chunk inside one transaction of the engine's
\* connection: the chunks sent before are rolled back with it when the store
\* aborted the transaction, and stay when the transaction still commits
LoadChunkFails(p) ==
    /\ hist[p].failedChunk = 0
    /\ \E kept \in BOOLEAN :
          /\ hist' = [hist EXCEPT ![p].failedChunk = loc[p].chunk,
                                  ![p].sent = @ \cup {loc[p].chunk},
                                  ![p].kept = kept]
          /\ target' = IF kept THEN target \o loc[p].loaded ELSE target
    /\ Finish(p, "error")
    /\ UNCHANGED loc

LoadChunk(p) ==
    /\ pc[p] = "load"
    /\ \/ /\ loc' = [loc EXCEPT ![p].loaded =
                        @ \o ChunkRows(RowsToLoad(args[p].df, loc[p].filtered),
                                       args[p].chunksize, loc[p].chunk),
                                ![p].chunk = @ + 1]
          /\ hist' = [hist EXCEPT ![p].sent = @ \cup {loc[p].chunk}]
          /\ pc' = [pc EXCEPT ![p] =
                       IF loc[p].chunk = loc[p].nchunks THEN "ins_commit" ELSE "load"]
          /\ UNCHANGED <<target, outcome>>
       \/ LoadChunkFails(p)
    /\ UNCHANGED <<staging, snapshotSeq, tx, op, args, calls>>

\* to_sql returns: its transaction commits, line 60 logs the success
InsertCommit(p) ==
    /\ pc[p] = "ins_commit"
    /\ \/ /\ target' = target \o loc[p].loaded
          /\ Finish(p, "ok")
       \/ /\ UNCHANGED target
          /\ Finish(p, "error")
    /\ UNCHANGED <<staging, snapshotSeq, tx, op, args, loc, hist, calls>>

NextWrite ==
    \/ InsertCall(1)
    \/ InsertRecordCall(1)
    \/ LoadChunk(1)
    \/ InsertCommit(1)
    \/ ReturnToCaller(1)

SpecWrite == Init /\ [][NextWrite]_vars

(***************************************************************************)
(* Two connectors whose callers do not serialise them.                     *)
(***************************************************************************)
ConcCall(p) ==
    /\ Idle(p)
    /\ \E a \in ConcArgs : \E cols \in query_columns(a.table_name) :
          UpdateEnter(p, a, cols, FALSE)

NextConc ==
    \E p \in Procs :
        \/ ConcCall(p)
        \/ Begin(p)
        \/ DropOld(p)
        \/ ToSql(p)
        \/ Update(p)
        \/ DropStaging(p)
        \/ Commit(p)
        \/ ReturnToCaller(p)

SpecConc == Init /\ [][NextConc]_vars

(***************************************************************************)
(* Properties.                                                             *)
(***************************************************************************)
IsUpdate(p) == op[p] = "update_from_dataframe"

IsInsert(p) == op[p] \in {"insert_dataframe", "insert_record"}

InTransaction(p) == pc[p] \in {"drop_old", "to_sql", "update", "drop_staging", "commit"}

\* the first row of the batch that carries the key tuple of row r
FirstWithKey(rows, r, keyset) ==
    CHOOSE i \in 1..Len(rows) :
        /\ SameKey(rows[i], r, keyset)
        /\ \A j \in 1..(i - 1) : ~SameKey(rows[j], r, keyset)

HasKey(rows, r, keyset) == \E i \in 1..Len(rows) : SameKey(rows[i], r, keyset)

\* C1: after a call of update_from_dataframe has returned, with or without
\* a failure, no staging relation of its target table exists.
C1_NoStagingAfterReturn ==
    \A p \in Procs :
        (IsUpdate(p) /\ pc[p] = "done")
            => StagingName(args[p].table_name) \notin DOMAIN staging

\* C2: when a step fails after the transaction scope was opened, nothing the
\* call did is committed: the target's rows and the relations of the store
\* are those of before the call, and no transaction is left open.
C2_FailedUpdateLeavesNoEffect ==
    \A p \in Procs :
        (IsUpdate(p) /\ pc[p] = "done" /\ outcome[p] = "error" /\ hist[p].txOpened)
            => /\ target = hist[p].start_target
               /\ DOMAIN staging = hist[p].start_names
               /\ ~tx[p].active

\* what holds of C2 on the code: a failed call leaves the target's rows as
\* they were
FailedUpdateKeepsTargetRows ==
    \A p \in Procs :
        (IsUpdate(p) /\ pc[p] = "done" /\ outcome[p] # "ok")
            => target = hist[p].start_target

\* what holds of C1 on the code: a call that succeeded leaves no staging
\* relation of its target table
StagingGoneAfterSuccess ==
    \A p \in Procs :
        (IsUpdate(p) /\ pc[p] = "done" /\ outcome[p] = "ok")
            => StagingName(args[p].table_name) \notin DOMAIN staging

KeysOutsideTable(p) ==
    ~(Range(args[p].key_columns) \subseteq Range(columns_of(args[p].table_name)))

Untouched(p) ==
    /\ target = hist[p].start_target
    /\ DOMAIN staging = hist[p].start_names
    /\ ~hist[p].txOpened
    /\ tx[p] = NoTx

\* C4: a call whose key columns are not all columns of the target table
\* fails before any statement that changes the store: it is reported as an
\* error, no transaction was opened, target and staging relations are as
\* before the call.
C4_BadKeysFailBeforeMutation ==
    \A p \in Procs :
        (IsUpdate(p) /\ KeysOutsideTable(p))
            => pc[p] = "done" /\ outcome[p] = "error" /\ Untouched(p)

C4_Witness ==
    /\ IsUpdate(1) /\ pc[1] = "done" /\ outcome[1] = "error"
    /\ args[1].table_name = TargetTable
    /\ args[1].key_columns = <<"extra">>
    /\ "extra" \in Range(args[1].df.cols)
    /\ Len(args[1].df.rows) = 2
    /\ loc[1].table_cols = Range(TableCols)

\* C5: a call repeated with the arguments of a call that has just succeeded
\* leaves the target table as that first call left it.
C5_RepeatChangesNothing ==
    \A p \in Procs :
        (IsUpdate(p) /\ hist[p].repeat) => target = hist[p].start_target

C5_Witness ==
    /\ IsUpdate(1) /\ hist[1].repeat
    /\ pc[1] = "done" /\ outcome[1] = "ok"
    /\ target \notin InitialTargets
    /\ Len(args[1].df.rows) = 2

\* the update columns as the contract resolves them: the requested ones, or
\* all of the batch's, that the table has and that are no key
ResolvedEmpty(p) ==
    LET requested == IF args[p].update_columns.given
                     THEN Range(args[p].update_columns.cols)
                     ELSE Range(args[p].df.cols)
    IN  (requested \cap loc[p].table_cols) \ Range(args[p].key_columns) = {}

\* C6: when the table's columns were fetched, the keys are among them and
\* the update columns resolve to none, the call returns without a failure,
\* has opened no transaction and created no staging relation, and the
\* target is unchanged.
C6_EmptyUpdateIsNoOp ==
    \A p \in Procs :
        ( /\ IsUpdate(p)
          /\ loc[p].table_cols # {}
          /\ Range(args[p].key_columns) \subseteq loc[p].table_cols
          /\ ResolvedEmpty(p) )
            => pc[p] = "done" /\ outcome[p] = "noop" /\ Untouched(p)

C6_Witness ==
    /\ IsUpdate(1) /\ pc[1] = "done" /\ outcome[1] = "noop"
    /\ args[1].update_columns = Given(<<"symbol">>)
    /\ args[1].key_columns = <<"symbol">>
    /\ Len(args[1].df.rows) = 2
    /\ loc[1].table_cols = Range(TableCols)

\* C7: no operation of the connector lets a failure of the store escape to
\* its caller as an exception.
C7_NoOperationRaises ==
    \A p \in Procs : outcome[p] # "raised"

\* the rows of the chunks before chunk k
RowsBefore(p, k) ==
    LET rows == RowsToLoad(args[p].df, loc[p].filtered)
    IN  IF args[p].chunksize = 0 THEN <<>>
        ELSE SubSeq(rows, 1, (k - 1) * args[p].chunksize)

ChunkedWriteFailed(p) ==
    /\ IsInsert(p) /\ pc[p] = "done"
    /\ args[p].chunksize # 0
    /\ hist[p].failedChunk # 0

C9_OneStagingRelationPerTable ==
    \A p, q \in Procs :
        ( /\ IsUpdate(p) /\ IsUpdate(q)
          /\ InTransaction(p) /\ InTransaction(q)
          /\ args[p].table_name = args[q].table_name )
            => /\ loc[p].temp_name = loc[q].temp_name
               /\ Cardinality(DOMAIN staging) <= 1

\* C9, the race: the UPDATE of one call has read the rows the other call
\* staged, while that other call had not returned.
C9_Witness ==
    \E p \in Procs : \E q \in Procs \ {p} :
        /\ IsUpdate(p) /\ pc[p] \in {"drop_staging", "commit"}
        /\ hist[p].readFrom = q
        /\ IsUpdate(q) /\ InTransaction(q)

\* C9, the other face of the race: the UPDATE of a call finds the staging
\* relation gone, dropped by the other call.
C9_StagingGone ==
    \E p \in Procs :
        /\ IsUpdate(p) /\ pc[p] = "done" /\ outcome[p] = "error"
        /\ hist[p].readMissing

IsSubsequence(s, t) == s = SelectSeq(t, LAMBDA c : c \in Range(s))

\* C10: the columns the write path keeps are columns of the batch, in the
\* batch's order, and every one of them is a column the catalog returned
\* for the target table.
C10_ReconciledColumns ==
    \A p \in Procs :
        (IsInsert(p) /\ pc[p] # "idle") =>
            /\ IsSubsequence(loc[p].filtered, args[p].df.cols)
            /\ Range(loc[p].filtered) \subseteq loc[p].table_cols
            /\ Range(loc[p].filtered) \subseteq Range(columns_of(args[p].table_name))

C10_Witness ==
    /\ IsInsert(1) /\ pc[1] = "load"
    /\ args[1].df.cols = <<"shares", "extra", "symbol">>
    /\ loc[1].filtered = <<"shares", "symbol">>

====
